---- MODULE Spec2Model ----
(***************************************************************************)
(* Model of plonk.Verify (internal/backend/bn254/plonk/verify.go).         *)
(*                                                                         *)
(* The scalar field fr is scaled down to the prime field of order q, the   *)
(* group G1 to the cyclic group of the same order q, written additively    *)
(* and represented by discrete logarithms 0..q-1.  fr.Element keeps its    *)
(* Montgomery representation x*R mod q, so that ToBigIntRegular and        *)
(* SetBytes are real conversions.                                          *)
(***************************************************************************)
EXTENDS Integers, Sequences, FiniteSets, TLC

\* ------------------------------------------------------------------ bounds
MaxWitness == 3
MaxCalls == 2

\* --------------------------------------------------------- field fr (scaled)
q == 13
R == 16

RInv == CHOOSE x \in 0..(q - 1) : (x * R) % q = 1

\* fr.Element values are Montgomery representatives in 0..q-1
Fr == 0..(q - 1)

\* the Montgomery form of the canonical representative x
Mont(x) == (x * R) % q

ToBigIntRegular(x) == (x * RInv) % q

SetOne == Mont(1)

Add(x, y) == (x + y) % q

Sub(x, y) == (x + q - y) % q

Mul(x, y) == (x * y * RInv) % q

RECURSIVE Exp(_, _)
Exp(x, e) == IF e = 0 THEN SetOne ELSE Mul(x, Exp(x, e - 1))

\* gnark-crypto: Inverse of zero is zero, no error and no panic
Inverse(x) == IF x = 0 THEN 0 ELSE Exp(x, q - 2)

Div(x, y) == Mul(x, Inverse(y))

Equal(x, y) == x = y

\* big-endian bytes to integer, reduced modulo q, then to Montgomery form
SetBytes(b) == Mont(b % q)

\* ------------------------------------------------------------ group G1
G1 == 0..(q - 1)

G1Add(P, Q) == (P + Q) % q

G1Sub(P, Q) == (P + q - Q) % q

\* [k]P for a big.Int k >= 0
ScalarMultiplication(P, k) == (P * k) % q

\* uncompressed encoding of a point: two big-endian base-16 digits
Marshal(P) == <<P \div 16, P % 16>>

\* ------------------------------------------------- fiat-shamir transcript
\* the hash, eight bits wide, absorbing one byte at a time
RECURSIVE HashFrom(_, _)
HashFrom(h, bytes) ==
    IF bytes = <<>> THEN h
    ELSE HashFrom((h * 31 + Head(bytes) + 1) % 256, Tail(bytes))

HashSum(bytes) == HashFrom(17, bytes)

LabelBytes(name) ==
    CASE name = "gamma" -> <<103>>
      [] name = "alpha" -> <<97>>
      [] name = "zeta" -> <<122>>
      [] OTHER -> <<0>>

NewTranscript(names) ==
    [ challengeOrder |-> names,
      bindings |-> [k \in 1..Len(names) |-> <<>>],
      challenges |-> [k \in 1..Len(names) |-> 0],
      isComputed |-> [k \in 1..Len(names) |-> FALSE] ]

\* position of a declared challenge, 0 when it is not declared
ChallengeNumber(t, name) ==
    IF \E k \in 1..Len(t.challengeOrder) : t.challengeOrder[k] = name
    THEN CHOOSE k \in 1..Len(t.challengeOrder) : t.challengeOrder[k] = name
    ELSE 0

Bind(t, name, value) ==
    LET n == ChallengeNumber(t, name) IN
    IF n = 0 THEN [fs |-> t, err |-> "errChallengeNotFound"]
    ELSE IF t.isComputed[n] THEN [fs |-> t, err |-> "errChallengeAlreadyComputed"]
    ELSE [fs |-> [t EXCEPT !.bindings[n] = @ \o value], err |-> "nil"]

ComputeChallenge(t, name) ==
    LET n == ChallengeNumber(t, name) IN
    IF n = 0 THEN [fs |-> t, value |-> 0, err |-> "errChallengeNotFound"]
    ELSE IF t.isComputed[n] THEN [fs |-> t, value |-> t.challenges[n], err |-> "nil"]
    ELSE IF n > 1 /\ ~t.isComputed[n - 1]
    THEN [fs |-> t, value |-> 0, err |-> "errPreviousChallengeNotComputed"]
    ELSE LET prev == IF n = 1 THEN <<>> ELSE <<t.challenges[n - 1]>>
             res == HashSum(LabelBytes(name) \o prev \o t.bindings[n])
         IN [fs |-> [t EXCEPT !.challenges[n] = res, !.isComputed[n] = TRUE],
             value |-> res, err |-> "nil"]

\* ------------------------------------------------------------------- kzg
\* e(commitment - [y]G1, G2) * e(-H, [s]G2 - [a]G2) = 1, in the exponent;
\* srs is the discrete logarithm s of the SRS element [s]G2
KzgVerify(commitment, openingProof, srs) ==
    LET claimedValueG1 == ScalarMultiplication(1, ToBigIntRegular(openingProof.ClaimedValue))
        fminusfa == G1Sub(commitment, claimedValueG1)
        negH == G1Sub(0, openingProof.H)
        xminusa == (srs + q - ToBigIntRegular(openingProof.Point)) % q
    IN IF (fminusfa + negH * xminusa) % q = 0 THEN "nil" ELSE "ErrVerifyOpeningProof"

RECURSIVE FoldDigests(_, _)
FoldDigests(digests, gamma) ==
    IF digests = <<>> THEN 0
    ELSE G1Add(Head(digests),
               ScalarMultiplication(FoldDigests(Tail(digests), gamma), ToBigIntRegular(gamma)))

RECURSIVE FoldEvals(_, _)
FoldEvals(evals, gamma) ==
    IF evals = <<>> THEN 0
    ELSE Add(Head(evals), Mul(FoldEvals(Tail(evals), gamma), gamma))

RECURSIVE MarshalAll(_)
MarshalAll(digests) ==
    IF digests = <<>> THEN <<>> ELSE Marshal(Head(digests)) \o MarshalAll(Tail(digests))

BatchVerifySinglePoint(digests, batchOpeningProof, srs) ==
    IF Len(digests) # Len(batchOpeningProof.ClaimedValues) THEN "ErrInvalidNbDigests"
    ELSE LET gamma == SetBytes(HashSum(<<batchOpeningProof.Point>> \o MarshalAll(digests)))
             eqProof == [ H |-> batchOpeningProof.H,
                          Point |-> batchOpeningProof.Point,
                          ClaimedValue |-> FoldEvals(batchOpeningProof.ClaimedValues, gamma) ]
         IN KzgVerify(FoldDigests(digests, gamma), eqProof, srs)

\* ---------------------------------------------------------------- state
VARIABLES proof, vk, publicWitness, pc, fs, local, err, trace, history, how

vars == <<proof, vk, publicWitness, pc, fs, local, err, trace, history, how>>

inputs == <<proof, vk, publicWitness>>

\* the zero values of Verify's local variables
ZeroLocal ==
    [ gamma |-> 0, alpha |-> 0, zeta |-> 0, zetaPowerM |-> 0, zzeta |-> 0,
      pi |-> 0, den |-> 0, acc |-> 0, lagrange |-> 0, lagrangeOne |-> 0, i |-> 0,
      alphaSquareLagrange |-> 0, linearizedPolynomialZeta |-> 0,
      foldedH |-> 0, linearizedPolynomialDigest |-> 0 ]

\* ------------------------------------------------ Verify: pure computations
\* lines 98-103: L_0(zeta) = 1/n * (zeta^n - 1)/(zeta - 1)
LagrangeOne(zeta, zzeta, sizeInv) ==
    Mul(Div(zzeta, Sub(zeta, SetOne)), sizeInv)

\* the loop with the new denominator multiplied in place of the old one
LagrangeLoopStaleDen(l, w, generator) ==
    LET xiLi == Mul(l.lagrange, w[l.i + 1])
        acc1 == Mul(l.acc, generator)
        den1 == Sub(l.zeta, acc1)
        lag1 == Mul(Mul(l.lagrange, generator), den1)
    IN [l EXCEPT !.pi = Add(l.pi, xiLi), !.acc = acc1, !.den = den1,
                 !.lagrange = Div(lag1, den1), !.i = l.i + 1]

\* lines 106-114: one turn of the loop
LagrangeLoop(l, w, generator) ==
    LET xiLi == Mul(l.lagrange, w[l.i + 1])
        lag1 == Mul(Mul(l.lagrange, generator), l.den)
        acc1 == Mul(l.acc, generator)
        den1 == Sub(l.zeta, acc1)
    IN [l EXCEPT !.pi = Add(l.pi, xiLi), !.acc = acc1, !.den = den1,
                 !.lagrange = Div(lag1, den1), !.i = l.i + 1]

\* the permutation term without its factor zu
PermutationTermNoZu(cv, zu, gamma, alpha) ==
    LET s1a == Add(Add(cv[3], cv[6]), gamma)
        s2a == Add(Add(cv[4], cv[7]), gamma)
        oa == Add(cv[5], gamma)
    IN Mul(Mul(Mul(s1a, s2a), oa), alpha)

\* lines 130-137
PermutationTerm(cv, zu, gamma, alpha) ==
    LET s1a == Add(Add(cv[3], cv[6]), gamma)
        s2a == Add(Add(cv[4], cv[7]), gamma)
        oa == Add(cv[5], gamma)
    IN Mul(Mul(Mul(Mul(s1a, s2a), oa), alpha), zu)

\* alpha*L1(zeta) in place of alpha**2*L1(zeta)
AlphaLagrange(lagrangeOne, alpha) == Mul(lagrangeOne, alpha)

\* lines 139-140
AlphaSquareLagrange(lagrangeOne, alpha) == Mul(Mul(lagrangeOne, alpha), alpha)

\* lines 141-148: the expected quotient H(zeta)
ExpectedQuotient(cv, zu, l) ==
    LET num == Sub(Add(Add(cv[2], l.pi), PermutationTerm(cv, zu, l.gamma, l.alpha)),
                   AlphaSquareLagrange(l.lagrangeOne, l.alpha))
        zetaPowerMMinusOne == Sub(l.zetaPowerM, SetOne)
    IN Div(num, zetaPowerMMinusOne)

\* the exponent m in place of m + 2
MPlusZero(size) == size

\* line 156
MPlusTwo(size) == size + 2

\* lines 156-165
FoldedH(H, zeta, size) ==
    LET zetaMPlusTwoBigInt == ToBigIntRegular(Exp(zeta, MPlusTwo(size)))
        f1 == ScalarMultiplication(H[3], zetaMPlusTwoBigInt)
        f2 == G1Add(f1, H[2])
        f3 == ScalarMultiplication(f2, zetaMPlusTwoBigInt)
    IN G1Add(f3, H[1])

\* lines 170-188: l*ql + r*qr + rl*qm + o*qo + qk
FirstPart(cv, k) ==
    LET lb == ToBigIntRegular(cv[3])
        rb == ToBigIntRegular(cv[4])
        ob == ToBigIntRegular(cv[5])
        rlb == ToBigIntRegular(Mul(cv[3], cv[4]))
        d1 == ScalarMultiplication(k.Ql, lb)
        d2 == G1Add(d1, ScalarMultiplication(k.Qr, rb))
        d3 == G1Add(d2, ScalarMultiplication(k.Qm, rlb))
        d4 == G1Add(d3, ScalarMultiplication(k.Qo, ob))
    IN G1Add(d4, k.Qk)

\* lines 191-210
SecondPart(cv, zu, Z, k, l) ==
    LET s1a == Add(Add(cv[3], cv[6]), l.gamma)
        t1 == Add(Add(cv[4], cv[7]), l.gamma)
        s1b == Mul(Mul(Mul(s1a, t1), zu), l.alpha)
        s2a == Add(Add(cv[3], l.zeta), l.gamma)
        t2 == Add(Add(Mul(l.zeta, k.Shifter[1]), cv[4]), l.gamma)
        s2b == Mul(t2, s2a)
        t3 == Add(Add(Mul(l.zeta, k.Shifter[2]), cv[5]), l.gamma)
        s2c == Mul(Mul(t3, s2b), l.alpha)
        s3Commit == ScalarMultiplication(k.S[3], ToBigIntRegular(s1b))
        secondPart == ScalarMultiplication(Z, ToBigIntRegular(s2c))
    IN G1Sub(s3Commit, secondPart)

\* lines 213-216
ThirdPart(Z, alphaSquareLagrange) ==
    ScalarMultiplication(Z, ToBigIntRegular(alphaSquareLagrange))

\* lines 167-220
LinearizedPolynomialDigest(p, k, l) ==
    LET cv == p.BatchedProof.ClaimedValues
        zu == p.ZShiftedOpening.ClaimedValue
    IN G1Add(G1Add(FirstPart(cv, k), SecondPart(cv, zu, p.Z, k, l)),
             ThirdPart(p.Z, l.alphaSquareLagrange))

\* --------------------------------------------------------------- inputs
\* (Size, SizeInv, Generator): Size a power of two dividing q - 1
Domains ==
    { [Size |-> 4, SizeInv |-> Mont(10), Generator |-> Mont(5)],
      [Size |-> 2, SizeInv |-> Mont(7), Generator |-> Mont(12)],
      [Size |-> 1, SizeInv |-> Mont(1), Generator |-> Mont(1)] }

VerifyingKey(d) ==
    [ Size |-> d.Size, SizeInv |-> d.SizeInv, Generator |-> d.Generator,
      Ql |-> 2, Qr |-> 3, Qm |-> 5, Qo |-> 7, Qk |-> 11,
      S |-> <<4, 6, 9>>, Shifter |-> <<Mont(2), Mont(4)>>, KZGSRS |-> 6 ]

VerifyingKeys == {VerifyingKey(d) : d \in {e \in Domains : e.Size = 4}}

WitnessValues == <<Mont(3), Mont(8), Mont(5), Mont(11)>>

Min(a, b) == IF a < b THEN a ELSE b

\* public witnesses of length <= Size
Witnesses(size) ==
    {SubSeq(WitnessValues, 1, k) : k \in 0..Min(MaxWitness, Min(size, Len(WitnessValues)))}

\* claimed evaluations (c, s1): generic, c + gamma = 0, a + s1 + gamma = 0
ClaimedPairs == {<<6, 3>>, <<12, 3>>, <<6, 11>>}

Proofs ==
    { [ LRO |-> <<1, 8, 3>>, Z |-> 5, H |-> <<2, 10, h2>>,
        BatchedProof |-> [ H |-> bh, Point |-> Mont(4),
                           ClaimedValues |-> <<cq, 7, 1, 2, cs[1], cs[2], 4>> ],
        ZShiftedOpening |-> [ H |-> sh, Point |-> Mont(7), ClaimedValue |-> zu ] ]
      : h2 \in {0, 1, 2, 3, 4, 5}, bh \in {0, 1, 2, 3}, cq \in {0, 1, 2, 3},
        cs \in ClaimedPairs, sh \in {1, 2, 8}, zu \in {0, 5} }

Init ==
    /\ proof \in Proofs
    /\ vk \in VerifyingKeys
    /\ publicWitness \in Witnesses(vk.Size)
    /\ pc = "bindL"
    /\ fs = NewTranscript(<<"gamma", "alpha", "zeta">>)
    /\ local = ZeroLocal
    /\ err = "none"
    /\ trace = <<>>
    /\ history = <<>>
    /\ how = "first"

\* -------------------------------------------------------- Verify: steps
Call(op, slot, data) == [op |-> op, slot |-> slot, data |-> data]

\* fs.Bind(name, P.Marshal()), returning its error if any
BindStep(name, P, next) ==
    LET r == Bind(fs, name, Marshal(P)) IN
    /\ trace' = Append(trace, Call("Bind", name, Marshal(P)))
    /\ fs' = r.fs
    /\ IF r.err # "nil" THEN pc' = "done" /\ err' = r.err
                        ELSE pc' = next /\ UNCHANGED err
    /\ UNCHANGED <<inputs, local, history, how>>

\* fs.ComputeChallenge(name) and SetBytes of its digest into the local `name`
ChallengeStep(name, next) ==
    LET r == ComputeChallenge(fs, name) IN
    /\ trace' = Append(trace, Call("ComputeChallenge", name, <<>>))
    /\ fs' = r.fs
    /\ IF r.err # "nil" THEN pc' = "done" /\ err' = r.err /\ UNCHANGED local
       ELSE /\ pc' = next
            /\ local' = [local EXCEPT ![name] = SetBytes(r.value)]
            /\ UNCHANGED err
    /\ UNCHANGED <<inputs, history, how>>

BindL == pc = "bindL" /\ BindStep("gamma", proof.LRO[1], "bindR")

BindR == pc = "bindR" /\ BindStep("gamma", proof.LRO[2], "bindO")

BindO == pc = "bindO" /\ BindStep("gamma", proof.LRO[3], "gamma")

DeriveGamma == pc = "gamma" /\ ChallengeStep("gamma", "bindZ")

\* Comm(Z) bound to the slot gamma
BindZToGamma == pc = "bindZ" /\ BindStep("gamma", proof.Z, "alpha")

BindZ == pc = "bindZ" /\ BindStep("alpha", proof.Z, "alpha")

DeriveAlpha == pc = "alpha" /\ ChallengeStep("alpha", "bindH0")

BindH0 == pc = "bindH0" /\ BindStep("zeta", proof.H[1], "bindH1")

BindH1 == pc = "bindH1" /\ BindStep("zeta", proof.H[2], "bindH2")

BindH2 == pc = "bindH2" /\ BindStep("zeta", proof.H[3], "zeta")

DeriveZeta == pc = "zeta" /\ ChallengeStep("zeta", "lagrange")

\* lines 88-103
EvalLagrangeOne ==
    /\ pc = "lagrange"
    /\ LET zetaPowerM == Exp(local.zeta, vk.Size)
           zzeta == Sub(zetaPowerM, SetOne)
           lag == LagrangeOne(local.zeta, zzeta, vk.SizeInv)
       IN local' = [local EXCEPT !.zetaPowerM = zetaPowerM, !.zzeta = zzeta,
                                 !.acc = SetOne, !.den = Sub(local.zeta, SetOne),
                                 !.lagrange = lag, !.lagrangeOne = lag,
                                 !.pi = 0, !.i = 0]
    /\ pc' = "loop"
    /\ UNCHANGED <<inputs, fs, err, trace, history, how>>

\* lines 104-115
LoopTurn ==
    /\ pc = "loop"
    /\ local.i < Len(publicWitness)
    /\ local' = LagrangeLoop(local, publicWitness, vk.Generator)
    /\ UNCHANGED <<inputs, pc, fs, err, trace, history, how>>

\* the scalar check without its return
CheckQuotientNoReturn ==
    /\ pc = "loop"
    /\ local.i >= Len(publicWitness)
    /\ local' = [local EXCEPT
           !.alphaSquareLagrange = AlphaSquareLagrange(local.lagrangeOne, local.alpha),
           !.linearizedPolynomialZeta =
               ExpectedQuotient(proof.BatchedProof.ClaimedValues,
                                proof.ZShiftedOpening.ClaimedValue, local)]
    /\ pc' = "fold"
    /\ UNCHANGED <<inputs, fs, err, trace, history, how>>

\* lines 117-153
CheckQuotient ==
    /\ pc = "loop"
    /\ local.i >= Len(publicWitness)
    /\ LET zu == proof.ZShiftedOpening.ClaimedValue
           claimedQuotient == proof.BatchedProof.ClaimedValues[1]
           linearizedPolynomialZeta ==
               ExpectedQuotient(proof.BatchedProof.ClaimedValues, zu, local)
       IN /\ local' = [local EXCEPT
                 !.alphaSquareLagrange = AlphaSquareLagrange(local.lagrangeOne, local.alpha),
                 !.linearizedPolynomialZeta = linearizedPolynomialZeta]
          /\ IF ~Equal(claimedQuotient, linearizedPolynomialZeta)
             THEN pc' = "done" /\ err' = "errWrongClaimedQuotient"
             ELSE pc' = "fold" /\ UNCHANGED err
    /\ UNCHANGED <<inputs, fs, trace, history, how>>

\* foldedH an alias of proof.H[2] instead of a copy
FoldHInPlace ==
    /\ pc = "fold"
    /\ local' = [local EXCEPT !.foldedH = FoldedH(proof.H, local.zeta, vk.Size)]
    /\ proof' = [proof EXCEPT !.H[3] = FoldedH(proof.H, local.zeta, vk.Size)]
    /\ pc' = "digest"
    /\ UNCHANGED <<vk, publicWitness, fs, err, trace, history, how>>

\* lines 155-165: foldedH is a copy of proof.H[2], updated in place
FoldH ==
    /\ pc = "fold"
    /\ local' = [local EXCEPT !.foldedH = FoldedH(proof.H, local.zeta, vk.Size)]
    /\ pc' = "digest"
    /\ UNCHANGED <<inputs, fs, err, trace, history, how>>

\* lines 167-220: the digest is a copy of vk.Ql, updated in place
ComputeDigest ==
    /\ pc = "digest"
    /\ local' = [local EXCEPT
           !.linearizedPolynomialDigest = LinearizedPolynomialDigest(proof, vk, local)]
    /\ pc' = "batch"
    /\ UNCHANGED <<inputs, fs, err, trace, history, how>>

\* lines 224-232
BatchDigests ==
    << local.foldedH, local.linearizedPolynomialDigest,
       proof.LRO[1], proof.LRO[2], proof.LRO[3], vk.S[1], vk.S[2] >>

\* the batched opening with its error dropped
BatchOpenUnchecked ==
    /\ pc = "batch"
    /\ trace' = Append(trace, Call("BatchVerifySinglePoint", "", BatchDigests))
    /\ pc' = "single"
    /\ UNCHANGED <<inputs, fs, local, err, history, how>>

\* lines 223-238
BatchOpen ==
    /\ pc = "batch"
    /\ trace' = Append(trace, Call("BatchVerifySinglePoint", "", BatchDigests))
    /\ LET e == BatchVerifySinglePoint(BatchDigests, proof.BatchedProof, vk.KZGSRS)
       IN IF e # "nil" THEN pc' = "done" /\ err' = e
                       ELSE pc' = "single" /\ UNCHANGED err
    /\ UNCHANGED <<inputs, fs, local, history, how>>

\* the single-point opening with its result dropped
SingleOpenUnchecked ==
    /\ pc = "single"
    /\ trace' = Append(trace, Call("Verify", "", <<proof.Z>>))
    /\ err' = "nil"
    /\ pc' = "done"
    /\ UNCHANGED <<inputs, fs, local, history, how>>

\* line 240
SingleOpen ==
    /\ pc = "single"
    /\ trace' = Append(trace, Call("Verify", "", <<proof.Z>>))
    /\ err' = KzgVerify(proof.Z, proof.ZShiftedOpening, vk.KZGSRS)
    /\ pc' = "done"
    /\ UNCHANGED <<inputs, fs, local, history, how>>

\* ----------------------------------------------------------- the caller
\* a finished call is recorded and Verify is called again
CallAgain(p, kind) ==
    /\ pc = "done"
    /\ Len(history) + 1 < MaxCalls
    /\ history' = Append(history, [proof |-> proof, vk |-> vk,
                                   publicWitness |-> publicWitness, err |-> err,
                                   trace |-> trace])
    /\ how' = kind
    /\ proof' = p
    /\ pc' = "bindL"
    /\ fs' = NewTranscript(<<"gamma", "alpha", "zeta">>)
    /\ local' = ZeroLocal
    /\ err' = "none"
    /\ trace' = <<>>
    /\ UNCHANGED <<vk, publicWitness>>

\* the same inputs once more
Recall == CallAgain(proof, "same")

\* an accepted proof with another claimed value zu = Z(zeta*g)
PerturbZu ==
    /\ err = "nil"
    /\ \E v \in Fr \ {proof.ZShiftedOpening.ClaimedValue} :
           CallAgain([proof EXCEPT !.ZShiftedOpening.ClaimedValue = v], "zu")

\* an accepted proof with 1 added to the claimed quotient
PerturbQuotient ==
    /\ err = "nil"
    /\ CallAgain([proof EXCEPT !.BatchedProof.ClaimedValues[1] = Add(@, SetOne)],
                 "quotient")

Verify ==
    \/ BindL \/ BindR \/ BindO \/ DeriveGamma
    \/ BindZ \/ DeriveAlpha
    \/ BindH0 \/ BindH1 \/ BindH2 \/ DeriveZeta
    \/ EvalLagrangeOne \/ LoopTurn \/ CheckQuotient
    \/ FoldH \/ ComputeDigest \/ BatchOpen \/ SingleOpen

Next == Verify \/ Recall \/ PerturbZu \/ PerturbQuotient

Spec == Init /\ [][Next]_vars

\* ------------------------------------- the public-input aggregation alone
RECURSIVE SeqsUpTo(_, _)
SeqsUpTo(S, n) ==
    IF n = 0 THEN {<<>>}
    ELSE LET shorter == SeqsUpTo(S, n - 1)
         IN shorter \cup {Append(w, x) : w \in {v \in shorter : Len(v) = n - 1}, x \in S}

LagrangeWitnessValues == {0, Mont(1), Mont(2), Mont(5), Mont(7), Mont(12)}

\* lines 88-115 on every domain, every zeta and the witnesses of length <= Size
InitLagrange ==
    /\ proof \in {p \in Proofs : p.H[3] = 0 /\ p.BatchedProof.H = 0
                                 /\ p.BatchedProof.ClaimedValues[1] = 0
                                 /\ p.BatchedProof.ClaimedValues[5] = 6
                                 /\ p.BatchedProof.ClaimedValues[6] = 3
                                 /\ p.ZShiftedOpening.H = 1
                                 /\ p.ZShiftedOpening.ClaimedValue = 0}
    /\ vk \in {VerifyingKey(d) : d \in Domains}
    /\ publicWitness \in SeqsUpTo(LagrangeWitnessValues, Min(MaxWitness, vk.Size))
    /\ pc = "lagrange"
    /\ fs = NewTranscript(<<"gamma", "alpha", "zeta">>)
    /\ \E z \in Fr : local = [ZeroLocal EXCEPT !.zeta = z]
    /\ err = "none"
    /\ trace = <<>>
    /\ history = <<>>
    /\ how = "first"

NextLagrange == EvalLagrangeOne \/ LoopTurn \/ CheckQuotient

SpecLagrange == InitLagrange /\ [][NextLagrange]_vars

\* ------------------------------------------- arithmetic modulo q, directly
RECURSIVE PowMod(_, _)
PowMod(x, e) == IF e = 0 THEN 1 ELSE (x * PowMod(x, e - 1)) % q

\* the inverse of x # 0 modulo q
InvMod(x) == CHOOSE y \in 1..(q - 1) : (x * y) % q = 1

RECURSIVE ProdMod(_, _)
ProdMod(f, S) ==
    IF S = {} THEN 1
    ELSE LET x == CHOOSE y \in S : TRUE IN (f[x] * ProdMod(f, S \ {x})) % q

RECURSIVE SumMod(_, _)
SumMod(f, S) ==
    IF S = {} THEN 0
    ELSE LET x == CHOOSE y \in S : TRUE IN (f[x] + SumMod(f, S \ {x})) % q

\* the domain point g^j, g the canonical representative of the generator
DomainPoint(g, j) == PowMod(g, j)

OnDomain(z, n, g) == \E j \in 0..(n - 1) : z = DomainPoint(g, j)

\* the Lagrange basis polynomial L_i of the domain {g^0..g^(n-1)} at z:
\* the product over j # i of (z - g^j)/(g^i - g^j)
LagrangeBasis(i, z, n, g) ==
    ProdMod([j \in 0..(n - 1) |->
                ((z + q - DomainPoint(g, j))
                    * InvMod((DomainPoint(g, i) + q - DomainPoint(g, j)) % q)) % q],
            (0..(n - 1)) \ {i})

\* the sum over i < k of w_i * L_i(z), w in canonical representatives
PublicInputSum(w, k, z, n, g) ==
    SumMod([i \in 0..(k - 1) |-> (ToBigIntRegular(w[i + 1]) * LagrangeBasis(i, z, n, g)) % q],
           0..(k - 1))

zetaReg == ToBigIntRegular(local.zeta)

genReg == ToBigIntRegular(vk.Generator)

\* C5: for zeta outside the domain, after i turns of the loop pi is the direct
\* sum of w_j * L_j(zeta) over j < i (so the final pi is PI(zeta)), and
\* lagrangeOne is L_0(zeta) whatever the witness
LagrangeAggregationCorrect ==
    (pc = "loop" /\ ~OnDomain(zetaReg, vk.Size, genReg)) =>
        /\ ToBigIntRegular(local.pi)
             = PublicInputSum(publicWitness, local.i, zetaReg, vk.Size, genReg)
        /\ ToBigIntRegular(local.lagrangeOne) = LagrangeBasis(0, zetaReg, vk.Size, genReg)

\* the loop has finished over a witness of two nonzero elements on the domain
\* of size 4, with zeta outside the domain and a nonzero sum
LagrangeAggregationWitness ==
    /\ pc = "loop"
    /\ vk.Size = 4
    /\ Len(publicWitness) = 2
    /\ local.i = 2
    /\ ~OnDomain(zetaReg, vk.Size, genReg)
    /\ publicWitness[1] # 0 /\ publicWitness[2] # 0
    /\ local.pi # 0

\* ------------------------------------------------ the claims' vocabulary
\* canonical representatives of the challenges and the claimed evaluations
gammaReg == ToBigIntRegular(local.gamma)

alphaReg == ToBigIntRegular(local.alpha)

cvReg == [k \in 1..7 |-> ToBigIntRegular(proof.BatchedProof.ClaimedValues[k])]

zuReg == ToBigIntRegular(proof.ZShiftedOpening.ClaimedValue)

\* zeta^n = 1
ZetaOnDomain == PowMod(zetaReg, vk.Size) = 1

\* alpha*(a+s1+gamma)*(b+s2+gamma)*(c+gamma), the factor of zu in the scalar check
ZuFactor ==
    (alphaReg * (cvReg[3] + cvReg[6] + gammaReg) * (cvReg[4] + cvReg[7] + gammaReg)
        * (cvReg[5] + gammaReg)) % q

\* (linearizedPoly + PI(zeta) + alpha*zu*(a+s1+gamma)*(b+s2+gamma)*(c+gamma)
\*    - alpha^2*L0(zeta)) / (zeta^n - 1), for zeta^n # 1
DirectQuotient ==
    LET piZeta == PublicInputSum(publicWitness, Len(publicWitness), zetaReg, vk.Size, genReg)
        t1 == (ZuFactor * zuReg) % q
        t2 == (alphaReg * alphaReg * LagrangeBasis(0, zetaReg, vk.Size, genReg)) % q
        num == (cvReg[2] + piZeta + t1 + q - t2) % q
    IN (num * InvMod((PowMod(zetaReg, vk.Size) + q - 1) % q)) % q

\* H0 + zeta^(n+2)*H1 + zeta^(2(n+2))*H2
DirectFoldedH ==
    (proof.H[1] + PowMod(zetaReg, vk.Size + 2) * proof.H[2]
        + PowMod(zetaReg, 2 * (vk.Size + 2)) * proof.H[3]) % q

\* l*Ql + r*Qr + (l*r)*Qm + o*Qo + Qk + [alpha*zu*(a+s1+gamma)*(b+s2+gamma)]*S[2]
\*   - [alpha*(a+zeta+gamma)*(b+Shifter[0]*zeta+gamma)*(c+Shifter[1]*zeta+gamma)]*Z
\*   + [alpha^2*L0]*Z, for a value L0
DirectDigest(L0) ==
    LET a == cvReg[3]
        b == cvReg[4]
        c == cvReg[5]
        k1 == ToBigIntRegular(vk.Shifter[1])
        k2 == ToBigIntRegular(vk.Shifter[2])
        u == (alphaReg * zuReg * (a + cvReg[6] + gammaReg) * (b + cvReg[7] + gammaReg)) % q
        v == (alphaReg * (a + zetaReg + gammaReg) * (b + k1 * zetaReg + gammaReg)
                * (c + k2 * zetaReg + gammaReg)) % q
    IN (a * vk.Ql + b * vk.Qr + a * b * vk.Qm + c * vk.Qo + vk.Qk
          + u * vk.S[3] + (q - v) * proof.Z + alphaReg * alphaReg * L0 * proof.Z) % q

\* the three checks of a finished call, from its inputs and challenges
ScalarCheckPasses ==
    proof.BatchedProof.ClaimedValues[1]
        = ExpectedQuotient(proof.BatchedProof.ClaimedValues,
                           proof.ZShiftedOpening.ClaimedValue, local)

BatchOpenPasses ==
    BatchVerifySinglePoint(
        << FoldedH(proof.H, local.zeta, vk.Size),
           LinearizedPolynomialDigest(proof, vk, local),
           proof.LRO[1], proof.LRO[2], proof.LRO[3], vk.S[1], vk.S[2] >>,
        proof.BatchedProof, vk.KZGSRS) = "nil"

SingleOpenPasses == KzgVerify(proof.Z, proof.ZShiftedOpening, vk.KZGSRS) = "nil"

\* the calls to the commitment scheme made so far
KzgCalls == SelectSeq(trace, LAMBDA c : c.op \in {"BatchVerifySinglePoint", "Verify"})

KzgOps == [k \in 1..Len(KzgCalls) |-> KzgCalls[k].op]

TranscriptErrors ==
    {"errChallengeNotFound", "errChallengeAlreadyComputed", "errPreviousChallengeNotComputed"}

\* ------------------------------------------------------------- claims
\* C1: a finished call returns nil exactly when the scalar quotient check, the
\* batched opening of [foldedH, linearizedPolynomialDigest, L, R, O, S[0], S[1]]
\* and the single-point opening of Z against ZShiftedOpening all pass
VerifyAcceptsIffAllPass ==
    pc = "done" =>
        /\ err \notin TranscriptErrors
        /\ err = "nil" <=> (ScalarCheckPasses /\ BatchOpenPasses /\ SingleOpenPasses)

\* a call that passed the three checks, zeta off the domain, and returned nil
VerifyAcceptsWitness ==
    /\ pc = "done"
    /\ err = "nil"
    /\ ScalarCheckPasses /\ BatchOpenPasses /\ SingleOpenPasses
    /\ ~ZetaOnDomain

\* C2: when zeta is a domain point (zeta^n - 1 = 0 is a denominator of the
\* quotient division), Verify returns a division-by-zero error
DomainCollisionRejected ==
    (pc = "done" /\ ZetaOnDomain) => err = "DivisionByZeroError"

\* C4: for zeta^n # 1 Verify returns errWrongClaimedQuotient exactly when the
\* claimed quotient differs from the quotient computed directly in the field,
\* and adding 1 to the claimed quotient of an accepted proof always returns it
QuotientMismatchExact ==
    pc = "done" =>
        /\ ~ZetaOnDomain =>
              (err = "errWrongClaimedQuotient" <=> cvReg[1] # DirectQuotient)
        /\ how = "quotient" => err = "errWrongClaimedQuotient"

\* the claimed quotient of an accepted proof, zeta off the domain, was raised by
\* one and the call returned
QuotientMismatchWitness ==
    /\ pc = "done"
    /\ how = "quotient"
    /\ ~ZetaOnDomain
    /\ history[Len(history)].err = "nil"
    /\ cvReg[1] = (DirectQuotient + 1) % q
    /\ Len(publicWitness) > 0
    /\ alphaReg # 0

\* the call before the current one
previous == history[Len(history)]

\* C3 as stated: after changing only zu of an accepted proof, the single-point
\* opening of Z fails and Verify returns the opening-verification error
ZuPerturbedOpeningError ==
    (pc = "done" /\ how = "zu") =>
        /\ ~SingleOpenPasses
        /\ err = "ErrVerifyOpeningProof"

\* C3 amended: after changing only zu of an accepted proof the single-point
\* opening of Z fails and Verify rejects: with errWrongClaimedQuotient when zu
\* weighs in the expected quotient (its factor is nonzero and zeta^n # 1), the
\* scalar check coming first, and with the opening-verification error otherwise
ZuPerturbedRejected ==
    (pc = "done" /\ how = "zu") =>
        /\ previous.err = "nil"
        /\ ~SingleOpenPasses
        /\ IF ZuFactor # 0 /\ ~ZetaOnDomain
           THEN err = "errWrongClaimedQuotient"
           ELSE err = "ErrVerifyOpeningProof"

\* zu of an accepted proof was changed, the scalar check and the batched opening
\* still pass, and the single-point opening of Z rejected the proof
ZuPerturbedWitness ==
    /\ pc = "done"
    /\ how = "zu"
    /\ previous.err = "nil"
    /\ previous.proof.ZShiftedOpening.ClaimedValue # proof.ZShiftedOpening.ClaimedValue
    /\ ~ZetaOnDomain
    /\ ZuFactor = 0
    /\ KzgOps = <<"BatchVerifySinglePoint", "Verify">>
    /\ err = "ErrVerifyOpeningProof"

\* C6: no step of Verify changes the proof, the verifying key or the public
\* witness, and a second call on the same inputs returns what the first did
InputsUnchanged ==
    /\ [][pc # "done" => inputs' = inputs]_vars
    /\ []((pc = "done" /\ how = "same") =>
              (err = previous.err /\ trace = previous.trace /\ proof = previous.proof))

\* a second call on the inputs of an accepted first call has returned
InputsUnchangedWitness ==
    /\ pc = "done"
    /\ how = "same"
    /\ previous.err = "nil"
    /\ err = "nil"
    /\ local.foldedH # proof.H[3]

\* the transcript calls of a whole run, in order
ExpectedTranscript ==
    << Call("Bind", "gamma", Marshal(proof.LRO[1])),
       Call("Bind", "gamma", Marshal(proof.LRO[2])),
       Call("Bind", "gamma", Marshal(proof.LRO[3])),
       Call("ComputeChallenge", "gamma", <<>>),
       Call("Bind", "alpha", Marshal(proof.Z)),
       Call("ComputeChallenge", "alpha", <<>>),
       Call("Bind", "zeta", Marshal(proof.H[1])),
       Call("Bind", "zeta", Marshal(proof.H[2])),
       Call("Bind", "zeta", Marshal(proof.H[3])),
       Call("ComputeChallenge", "zeta", <<>>) >>

TranscriptCalls == SelectSeq(trace, LAMBDA c : c.op \in {"Bind", "ComputeChallenge"})

TranscriptPhase ==
    {"bindL", "bindR", "bindO", "gamma", "bindZ", "alpha", "bindH0", "bindH1", "bindH2", "zeta"}

\* C7: the transcript is driven in the fixed order (L, R, O into gamma, gamma
\* finalized, Z into alpha, alpha finalized, H0, H1, H2 into zeta, zeta
\* finalized), no slot is bound once finalized, and no call of Verify returns a
\* transcript error
TranscriptOrder ==
    /\ Len(TranscriptCalls) <= Len(ExpectedTranscript)
    /\ TranscriptCalls = SubSeq(ExpectedTranscript, 1, Len(TranscriptCalls))
    /\ pc \notin TranscriptPhase => TranscriptCalls = ExpectedTranscript
    /\ err \notin TranscriptErrors
    /\ \A k \in 1..3 :
          fs.bindings[k] # <<>> =>
              \A j \in 1..(k - 1) : fs.isComputed[j]
    /\ fs.isComputed[1] =>
          fs.bindings[1] = Marshal(proof.LRO[1]) \o Marshal(proof.LRO[2]) \o Marshal(proof.LRO[3])
    /\ fs.isComputed[2] => fs.bindings[2] = Marshal(proof.Z)
    /\ fs.isComputed[3] =>
          fs.bindings[3] = Marshal(proof.H[1]) \o Marshal(proof.H[2]) \o Marshal(proof.H[3])

\* the three challenges have been derived from all ten transcript calls
TranscriptOrderWitness ==
    /\ pc = "lagrange"
    /\ \A k \in 1..3 : fs.isComputed[k]
    /\ TranscriptCalls = ExpectedTranscript
    /\ local.zeta = SetBytes(fs.challenges[3])

\* C8: the error is that of the first failing stage (scalar check, batched
\* opening, single-point opening, in this order) and no later stage runs: no
\* opening is invoked after a failed scalar check, and the single-point opening
\* is not invoked after a failed batched opening
EarliestFailureReturned ==
    /\ Len(KzgOps) <= 2
    /\ KzgOps = SubSeq(<<"BatchVerifySinglePoint", "Verify">>, 1, Len(KzgOps))
    /\ pc = "done" =>
          IF ~ScalarCheckPasses
          THEN err = "errWrongClaimedQuotient" /\ KzgOps = <<>>
          ELSE IF ~BatchOpenPasses
          THEN err = "ErrVerifyOpeningProof" /\ KzgOps = <<"BatchVerifySinglePoint">>
          ELSE /\ KzgOps = <<"BatchVerifySinglePoint", "Verify">>
               /\ err = (IF SingleOpenPasses THEN "nil" ELSE "ErrVerifyOpeningProof")

\* the scalar check and both openings fail on the same input, and the call
\* returned after the scalar check
EarliestFailureWitness ==
    /\ pc = "done"
    /\ ~ScalarCheckPasses /\ ~BatchOpenPasses /\ ~SingleOpenPasses
    /\ err = "errWrongClaimedQuotient"
    /\ KzgOps = <<>>

\* C9: the digest passed second to the batched opening is l*Ql + r*Qr + (l*r)*Qm
\* + o*Qo + Qk + [alpha*zu*(a+s1+gamma)*(b+s2+gamma)]*S[2] - [alpha*(a+zeta+gamma)
\* *(b+Shifter[0]*zeta+gamma)*(c+Shifter[1]*zeta+gamma)]*Z + [alpha^2*L0(zeta)]*Z,
\* L0 the Lagrange basis polynomial of the domain point 1
DigestIsLinearizedCommitment ==
    \A k \in 1..Len(KzgCalls) :
        KzgCalls[k].op = "BatchVerifySinglePoint" =>
            KzgCalls[k].data[2] = DirectDigest(LagrangeBasis(0, zetaReg, vk.Size, genReg))

====
